---- MODULE Spec2Model ----
(***************************************************************************)
(* express-ts-handler: the request routine returned by                     *)
(* makeHandler(options)(config), src/README.md lines 342-414 (the text of  *)
(* src/index.ts), called by the host with (req, res, next).                *)
(*                                                                         *)
(* The routine's own state (err, originalSend, res.send, req.query, ...)   *)
(* is modelled statement by statement.  The code it calls and does not     *)
(* own - the middleware steps, the handler, the host's next, the response's*)
(* original send - is the environment: a running step or handler may call  *)
(* its next argument, assign to req, call res.send, and finally return or  *)
(* throw; each such move is an action whose input is drawn with \E.        *)
(* `trace` records every call that crosses the boundary, in order, from    *)
(* the host's call of the routine on.                                      *)
(*                                                                         *)
(* Spec is one invocation of the routine; SpecPair is two invocations of   *)
(* one route, on their own requests and responses, interleaved at their    *)
(* awaits.                                                                 *)
(***************************************************************************)
EXTENDS Integers, Sequences, FiniteSets, TLC

\* ------------------------------------------------------------------ bounds
\* the longest middleware list `use`
MaxUse == 2
\* the most calls of the next argument (localNext) within one invocation
MaxSignals == 2
\* the most explicit res.send calls the handler makes within one invocation
MaxSends == 1

\* ------------------------------------------------------------------ values
\* JavaScript values are records tagged by `t`, so any two can be compared.
Undefined == [t |-> "undefined"]
E1 == [t |-> "Error", id |-> 1]
E2 == [t |-> "Error", id |-> 2]
\* JavaScript truthiness of the values used here: only undefined is falsy
Truthy(v) == v # Undefined

\* what a step or the handler may pass to its next argument
SignalVals == {Undefined, E1}
\* what a step or the handler may throw (or reject with)
ThrowVals == {Undefined, E1, E2}

\* request field values and handler payloads, before validation
Good == [t |-> "value", ok |-> TRUE]
Bad == [t |-> "value", ok |-> FALSE]
RawVals == {Good, Bad}
\* what the handler may return: a payload or nothing
ReturnVals == RawVals \cup {Undefined}

\* schemas as the route configuration gives them: a schema instance of the
\* validation library (class Type, src/src/index.test.ts:36), or a plain
\* record of schemas ({ key: type }, src/src/index.test.ts:91)
TypeSchema == [t |-> "schema", constructor |-> "Type"]
PlainRecord == [t |-> "record", constructor |-> "Object"]
\* the route configurations tried: every choice of which schemas are
\* configured, with both forms for query and result, a schema instance for
\* params and a plain record for body
Configs ==
  [use : 0..MaxUse,
   query : {Undefined, TypeSchema, PlainRecord},
   params : {Undefined, TypeSchema},
   body : {Undefined, PlainRecord},
   result : {Undefined, TypeSchema, PlainRecord}]

\* no other invocation
Nobody == [t |-> "nobody"]

\* the response's own send, and the routine's replacement of it
SendFn == [t |-> "function", name |-> "send"]
WrapperFn == [t |-> "function", name |-> "wrapper"]

\* the live request object, and a fresh object a step may return instead
ReqObj == [t |-> "req"]
FreshObj(k) == [t |-> "fresh", by |-> k]

\* the requests tried against a configuration: a field with a schema holds
\* a value the schema accepts or one it rejects; a field without a schema,
\* which the routine never reads, holds one no schema would accept
Requests(c) ==
  {r \in [query : RawVals, params : RawVals, body : RawVals, ext : {{}}] :
     \A f \in {"query", "params", "body"} : c[f] = Undefined => r[f] = Bad}

\* ------------------------------------------------- the collaborators
\* options.object, the validation library's combinator (z.object): a schema
\* instance made from a plain record
Object(obj) == [t |-> "schema", constructor |-> "ZodObject", of |-> obj]

\* options.parse(type, value) returns normally exactly for a valid value
ParseOk(type, value) == value = Good
\* the value parse returns: the validated (coerced, stripped) form of value
ParseValue(type, value) == [t |-> "parsed", by |-> type, of |-> value]
\* the error parse throws on an invalid value
ParseError(type, value) == [t |-> "ValidationError", by |-> type, of |-> value]

\* ObjectToType testing for any object instead of a plain record:
\* if (obj && typeof obj === 'object') obj = object(obj)
ObjectToTypeAnyObject(obj) ==
  IF obj # Undefined THEN Object(obj) ELSE obj

\* objectToType(object, obj)
ObjectToType(obj) ==
  IF obj # Undefined /\ obj.constructor = "Object" THEN Object(obj) ELSE obj

\* --------------------------------------------------------------- state
VARIABLES
  config,        \* the object passed to handler(...): schemas as given, use as
                 \* the number of middleware steps
  checkResult,   \* makeHandler's option
  query, params, body, result,  \* the closure's schemas after objectToType
  req,           \* the request: query, params, body, and ext, the set of
                 \* steps that assigned their field to it
  res,           \* the response: send (SendFn or WrapperFn), headersSent
  err,           \* let err
  originalSend,  \* let originalSend: Undefined or SendFn
  output,        \* const output, once the handler has returned
  i,             \* the middleware loop's position, 1..use
  pc,            \* where the routine stands
  trace,         \* every call across the routine's boundary, in order
  suspended      \* another invocation of the same routine, waiting at one of
                 \* its awaits while this one runs: its req, res, err,
                 \* originalSend, output, i, pc and trace; Nobody when the
                 \* routine is invoked once

vars == <<config, checkResult, query, params, body, result, req, res, err,
          originalSend, output, i, pc, trace, suspended>>
cfgVars == <<config, checkResult, query, params, body, result>>

\* the events of trace with a given op
Events(op) == {n \in 1..Len(trace) : trace[n].op = op}
Count(op) == Cardinality(Events(op))

Init ==
  /\ config \in Configs
  /\ checkResult \in BOOLEAN
  /\ query = ObjectToType(config.query)
  /\ params = ObjectToType(config.params)
  /\ body = ObjectToType(config.body)
  /\ result = ObjectToType(config.result)
  /\ req \in Requests(config)
  /\ res = [send |-> SendFn, headersSent |-> FALSE]
  /\ err = Undefined
  /\ originalSend = Undefined
  /\ output = Undefined
  /\ i = 1
  /\ pc = IF config.use > 0 THEN "loop" ELSE "query"
  /\ trace = <<[op |-> "invoke", req |-> req, send |-> res.send]>>
  /\ suspended = Nobody

\* ------------------------------------------------- the routine's pieces
\* a localNext that keeps the first error it was given
LocalNextKeepingFirst(error) == err' = IF Truthy(err) THEN err ELSE error

\* const localNext = (error) => { err = error }
LocalNext(error) == err' = error

\* Catch keeping an error captured earlier: catch (e) { err = err || e }
CatchKeepingFirst(e) ==
  /\ err' = IF Truthy(err) THEN err ELSE e
  /\ pc' = "restore"

\* catch (e) { err = e }: control continues after the try statement
Catch(e) ==
  /\ err' = e
  /\ pc' = "restore"

\* the host's next(error), as the routine calls it: the host sees the error
\* and the response as it is at that moment
HostNext(error) == [op |-> "next", err |-> error, send |-> res.send]

\* ------------------------------------------------- the middleware loop
\* CallMiddleware without its await: fn(req, res, localNext), and the loop
\* goes on while the step is still running
CallMiddlewareNotAwaited ==
  /\ pc = "loop"
  /\ i <= config.use
  /\ trace' = Append(trace, [op |-> "fn", k |-> i, ctx |-> ReqObj, ext |-> req.ext])
  /\ pc' = "check"
  /\ UNCHANGED <<cfgVars, suspended, req, res, err, originalSend, output, i>>

\* for (const fn of use) { await fn(req, res, localNext); ...
CallMiddleware ==
  /\ pc = "loop"
  /\ i <= config.use
  /\ trace' = Append(trace, [op |-> "fn", k |-> i, ctx |-> ReqObj, ext |-> req.ext])
  /\ pc' = "step"
  /\ UNCHANGED <<cfgVars, suspended, req, res, err, originalSend, output, i>>

\* the running step calls its next argument
StepNext(v) ==
  /\ pc = "step"
  /\ Count("signal") < MaxSignals
  /\ LocalNext(v)
  /\ trace' = Append(trace, [op |-> "signal", by |-> i, value |-> v])
  /\ UNCHANGED <<cfgVars, suspended, req, res, originalSend, output, i, pc>>

\* the running step returns (or its promise resolves): nothing; or the
\* request object with a field of the step's own assigned to it
\* (return Object.assign(req, { one: 123 })); or a fresh object carrying
\* the field ({ ...req, one: 123 }).  The awaited value is dropped.
StepReturn(r) ==
  /\ pc = "step"
  /\ req' = IF r = ReqObj THEN [req EXCEPT !.ext = @ \cup {i}] ELSE req
  /\ trace' = Append(trace, [op |-> "return", by |-> i, value |-> r])
  /\ pc' = "check"
  /\ UNCHANGED <<cfgVars, suspended, res, err, originalSend, output, i>>

\* the running step throws (or its promise rejects)
StepThrow(e) ==
  /\ pc = "step"
  /\ trace' = Append(trace, [op |-> "throw", by |-> i, value |-> e])
  /\ Catch(e)
  /\ UNCHANGED <<cfgVars, suspended, req, res, originalSend, output, i>>

\* CheckErr without its return: next(err) is called and the loop goes on
CheckErrNoReturn ==
  /\ pc = "check"
  /\ trace' = IF Truthy(err) THEN Append(trace, HostNext(err)) ELSE trace
  /\ i' = i + 1
  /\ pc' = IF i + 1 <= config.use THEN "loop" ELSE "query"
  /\ UNCHANGED <<cfgVars, suspended, req, res, err, originalSend, output>>

\* CheckErr leaving the loop after the first step that raised no error
CheckErrLeavingLoop ==
  /\ pc = "check"
  /\ IF Truthy(err)
       THEN /\ trace' = Append(trace, HostNext(err))
            /\ pc' = "done"
            /\ i' = i
       ELSE /\ trace' = trace
            /\ i' = i + 1
            /\ pc' = "query"
  /\ UNCHANGED <<cfgVars, suspended, req, res, err, originalSend, output>>

\* CheckErr calling next without the error: if (err) { next(); return; }
CheckErrDroppingError ==
  /\ pc = "check"
  /\ IF Truthy(err)
       THEN /\ trace' = Append(trace, HostNext(Undefined))
            /\ pc' = "done"
            /\ i' = i
       ELSE /\ trace' = trace
            /\ i' = i + 1
            /\ pc' = IF i + 1 <= config.use THEN "loop" ELSE "query"
  /\ UNCHANGED <<cfgVars, suspended, req, res, err, originalSend, output>>

\* if (err) { next(err); return; } and the loop's advance
CheckErr ==
  /\ pc = "check"
  /\ IF Truthy(err)
       THEN /\ trace' = Append(trace, HostNext(err))
            /\ pc' = "done"
            /\ i' = i
       ELSE /\ trace' = trace
            /\ i' = i + 1
            /\ pc' = IF i + 1 <= config.use THEN "loop" ELSE "query"
  /\ UNCHANGED <<cfgVars, suspended, req, res, err, originalSend, output>>

\* ------------------------------------------------- field validation
\* ValidateField with the throw of parse swallowed: the field is left as it
\* is and the routine goes on
ValidateFieldSwallowing(field, type, then) ==
  /\ trace' = IF type # Undefined
                THEN Append(trace, [op |-> "parse", field |-> field,
                                    type |-> type, value |-> req[field]])
                ELSE trace
  /\ req' = IF type # Undefined /\ ParseOk(type, req[field])
              THEN [req EXCEPT ![field] = ParseValue(type, req[field])]
              ELSE req
  /\ err' = err
  /\ pc' = then

\* ValidateField with the value parse returns dropped: parse(type, req[field])
ValidateFieldNotAssigning(field, type, then) ==
  IF type # Undefined
    THEN /\ trace' = Append(trace, [op |-> "parse", field |-> field,
                                    type |-> type, value |-> req[field]])
         /\ req' = req
         /\ IF ParseOk(type, req[field])
              THEN /\ err' = err
                   /\ pc' = then
              ELSE Catch(ParseError(type, req[field]))
    ELSE /\ pc' = then
         /\ UNCHANGED <<trace, req, err>>

\* ValidateField without its condition: req[field] = parse(type, req[field])
ValidateFieldAlways(field, type, then) ==
  /\ trace' = Append(trace, [op |-> "parse", field |-> field,
                             type |-> type, value |-> req[field]])
  /\ IF ParseOk(type, req[field])
       THEN /\ req' = [req EXCEPT ![field] = ParseValue(type, req[field])]
            /\ err' = err
            /\ pc' = then
       ELSE /\ req' = req
            /\ Catch(ParseError(type, req[field]))

\* ValidateField that notes the error of parse and goes on to the next field:
\* try { req[field] = parse(type, req[field]) } catch (e) { err = e }
ValidateFieldCollecting(field, type, then) ==
  /\ trace' = IF type # Undefined
                THEN Append(trace, [op |-> "parse", field |-> field,
                                    type |-> type, value |-> req[field]])
                ELSE trace
  /\ req' = IF type # Undefined /\ ParseOk(type, req[field])
              THEN [req EXCEPT ![field] = ParseValue(type, req[field])]
              ELSE req
  /\ err' = IF type # Undefined /\ ~ParseOk(type, req[field])
              THEN ParseError(type, req[field])
              ELSE err
  /\ pc' = then

\* ValidateField that, when parse throws, puts back the incoming values of
\* the fields validated before
ValidateFieldRollingBack(field, type, then) ==
  IF type # Undefined
    THEN /\ trace' = Append(trace, [op |-> "parse", field |-> field,
                                    type |-> type, value |-> req[field]])
         /\ IF ParseOk(type, req[field])
              THEN /\ req' = [req EXCEPT ![field] = ParseValue(type, req[field])]
                   /\ err' = err
                   /\ pc' = then
              ELSE /\ req' = [trace[1].req EXCEPT !.ext = req.ext]
                   /\ Catch(ParseError(type, req[field]))
    ELSE /\ pc' = then
         /\ UNCHANGED <<trace, req, err>>

\* if (type) req[field] = parse(type, req[field]), then on to `then`;
\* a throw of parse lands in the catch clause
ValidateField(field, type, then) ==
  IF type # Undefined
    THEN /\ trace' = Append(trace, [op |-> "parse", field |-> field,
                                    type |-> type, value |-> req[field]])
         /\ IF ParseOk(type, req[field])
              THEN /\ req' = [req EXCEPT ![field] = ParseValue(type, req[field])]
                   /\ err' = err
                   /\ pc' = then
              ELSE /\ req' = req
                   /\ Catch(ParseError(type, req[field]))
    ELSE /\ pc' = then
         /\ UNCHANGED <<trace, req, err>>

\* if (query) req.query = parse(query, req.query)
ValidateQuery ==
  /\ pc = "query"
  /\ ValidateField("query", query, "params")
  /\ UNCHANGED <<cfgVars, suspended, res, originalSend, output, i>>

\* if (params) req.params = parse(params, req.params)
ValidateParams ==
  /\ pc = "params"
  /\ ValidateField("params", params, "body")
  /\ UNCHANGED <<cfgVars, suspended, res, originalSend, output, i>>

\* if (body) req.body = parse(body, req.body)
ValidateBody ==
  /\ pc = "body"
  /\ ValidateField("body", body, "install")
  /\ UNCHANGED <<cfgVars, suspended, res, originalSend, output, i>>

\* ------------------------------------------------- the interceptor
\* whether the routine replaces res.send: if (result && checkResult)
InterceptsWheneverResult == result # Undefined
Intercepts == result # Undefined /\ checkResult

\* if (result && checkResult) { const send = res.send; originalSend = send;
\*   res.send = (value) => { ... } }
InstallInterceptor ==
  /\ pc = "install"
  /\ IF Intercepts
       THEN /\ originalSend' = res.send
            /\ res' = [res EXCEPT !.send = WrapperFn]
       ELSE UNCHANGED <<originalSend, res>>
  /\ pc' = "call"
  /\ UNCHANGED <<cfgVars, suspended, req, err, output, i, trace>>

\* The outcome of a call res.send(value) made by `by` (the handler's own
\* "explicit" call, or the routine's "implicit" one): the response and
\* originalSend after it, the events it adds, and whether it threw.

\* The response's own send (the mock of src/src/index.test.ts:49-53) takes
\* the payload and sets headersSent; `via` tells whether the caller of
\* res.send reached it directly or the routine's wrapper passed the payload on
OwnSend(r, value, by, via) ==
  [res |-> [r EXCEPT !.headersSent = TRUE],
   originalSend |-> originalSend,
   events |-> <<[op |-> "send", value |-> value, by |-> by, via |-> via]>>,
   thrown |-> FALSE, error |-> Undefined]

\* WrappedSend passing on the value it was given instead of the value parse
\* returned: parse(result, value); return send.call(res, value)
WrappedSendRaw(value, by) ==
  LET restored == [res EXCEPT !.send = originalSend]
      parsing == [op |-> "parse", field |-> "result", type |-> result,
                  value |-> value]
  IN IF ParseOk(result, value)
       THEN LET sent == OwnSend(restored, value, by, "wrapper")
            IN [sent EXCEPT !.originalSend = Undefined,
                            !.events = <<parsing>> \o @]
       ELSE [res |-> restored, originalSend |-> Undefined,
             events |-> <<parsing>>,
             thrown |-> TRUE, error |-> ParseError(result, value)]

\* WrappedSend with the throw of parse swallowed: a rejected value is passed
\* on to the response's own send as it is
WrappedSendLenient(value, by) ==
  LET restored == [res EXCEPT !.send = originalSend]
      parsing == [op |-> "parse", field |-> "result", type |-> result,
                  value |-> value]
      sent == OwnSend(restored,
                      IF ParseOk(result, value) THEN ParseValue(result, value)
                                                ELSE value,
                      by, "wrapper")
  IN [sent EXCEPT !.originalSend = Undefined, !.events = <<parsing>> \o @]

\* WrappedSend that stays installed:
\* (value) => send.call(res, parse(result, value))
WrappedSendStaying(value, by) ==
  LET parsing == [op |-> "parse", field |-> "result", type |-> result,
                  value |-> value]
  IN IF ParseOk(result, value)
       THEN LET sent == OwnSend(res, ParseValue(result, value), by, "wrapper")
            IN [sent EXCEPT !.events = <<parsing>> \o @]
       ELSE [res |-> res, originalSend |-> originalSend,
             events |-> <<parsing>>,
             thrown |-> TRUE, error |-> ParseError(result, value)]

\* (value) => { originalSend = undefined; res.send = send;
\*              return send.call(res, parse(result, value)) }
\* (send, the constant the wrapper closes over, is what originalSend still
\* holds when the wrapper is called)
WrappedSend(value, by) ==
  LET restored == [res EXCEPT !.send = originalSend]
      parsing == [op |-> "parse", field |-> "result", type |-> result,
                  value |-> value]
  IN IF ParseOk(result, value)
       THEN LET sent == OwnSend(restored, ParseValue(result, value), by, "wrapper")
            IN [sent EXCEPT !.originalSend = Undefined,
                            !.events = <<parsing>> \o @]
       ELSE [res |-> restored, originalSend |-> Undefined,
             events |-> <<parsing>>,
             thrown |-> TRUE, error |-> ParseError(result, value)]

\* res.send(value): whichever function the response holds at the moment
ResSend(value, by) ==
  LET call == [op |-> "res.send", value |-> value, by |-> by, fn |-> res.send]
      o == IF res.send = WrapperFn THEN WrappedSend(value, by)
                                   ELSE OwnSend(res, value, by, "direct")
  IN [o EXCEPT !.events = <<call>> \o @]

\* ------------------------------------------------- the handler
\* const output = await handler(req, res, localNext): the call
CallHandler ==
  /\ pc = "call"
  /\ trace' = Append(trace, [op |-> "handler", ctx |-> ReqObj, req |-> req,
                             send |-> res.send])
  /\ pc' = "handler"
  /\ UNCHANGED <<cfgVars, suspended, req, res, err, originalSend, output, i>>

\* the running handler calls its next argument
HandlerNext(v) ==
  /\ pc = "handler"
  /\ Count("signal") < MaxSignals
  /\ LocalNext(v)
  /\ trace' = Append(trace, [op |-> "signal", by |-> 0, value |-> v])
  /\ UNCHANGED <<cfgVars, suspended, req, res, originalSend, output, i, pc>>

\* the running handler calls res.send(v); when the call throws (the wrapper's
\* parse rejected v) the handler either catches the error and goes on, or
\* lets it escape, which ends the handler with that error thrown
HandlerSend(v, catches) ==
  /\ pc = "handler"
  /\ Cardinality({n \in Events("res.send") : trace[n].by = "explicit"}) < MaxSends
  /\ LET o == ResSend(v, "explicit")
     IN /\ o.thrown \/ catches
        /\ res' = o.res
        /\ originalSend' = o.originalSend
        /\ IF o.thrown /\ ~catches
             THEN /\ trace' = trace \o o.events
                                \o <<[op |-> "throw", by |-> 0, value |-> o.error]>>
                  /\ Catch(o.error)
             ELSE /\ trace' = trace \o o.events
                  /\ UNCHANGED <<err, pc>>
  /\ UNCHANGED <<cfgVars, suspended, req, output, i>>

\* the running handler returns v (or its promise resolves with v)
HandlerReturn(v) ==
  /\ pc = "handler"
  /\ output' = v
  /\ trace' = Append(trace, [op |-> "return", by |-> 0, value |-> v])
  /\ pc' = "implicit"
  /\ UNCHANGED <<cfgVars, suspended, req, res, err, originalSend, i>>

\* the running handler throws e (or its promise rejects with e)
HandlerThrow(e) ==
  /\ pc = "handler"
  /\ trace' = Append(trace, [op |-> "throw", by |-> 0, value |-> e])
  /\ Catch(e)
  /\ UNCHANGED <<cfgVars, suspended, req, res, originalSend, output, i>>

\* ------------------------------------------------- after the handler
\* SendsOutput without the look at res.headersSent
SendsOutputUnlessErr == ~Truthy(err)

\* whether the routine sends the handler's output itself
SendsOutput == ~res.headersSent /\ ~Truthy(err)

\* if (!res.headersSent && !err) res.send(output)
ImplicitSend ==
  /\ pc = "implicit"
  /\ IF SendsOutput
       THEN LET o == ResSend(output, "implicit")
            IN /\ res' = o.res
               /\ originalSend' = o.originalSend
               /\ trace' = trace \o o.events
               /\ IF o.thrown THEN Catch(o.error)
                              ELSE /\ pc' = "restore"
                                   /\ err' = err
       ELSE /\ pc' = "restore"
            /\ UNCHANGED <<res, originalSend, trace, err>>
  /\ UNCHANGED <<cfgVars, suspended, req, output, i>>

\* Restore without its assignment: res.send is left as it is
RestoreNothing ==
  /\ pc = "restore"
  /\ pc' = "next"
  /\ UNCHANGED <<cfgVars, suspended, req, res, err, originalSend, output, i, trace>>

\* if (originalSend) res.send = originalSend
Restore ==
  /\ pc = "restore"
  /\ res' = IF originalSend # Undefined THEN [res EXCEPT !.send = originalSend]
                                        ELSE res
  /\ pc' = "next"
  /\ UNCHANGED <<cfgVars, suspended, req, err, originalSend, output, i, trace>>

\* next(err), the routine's last statement
CallNext ==
  /\ pc = "next"
  /\ trace' = Append(trace, HostNext(err))
  /\ pc' = "done"
  /\ UNCHANGED <<cfgVars, suspended, req, res, err, originalSend, output, i>>

\* ------------------------------------------------- the specification
Next ==
  \/ CallMiddleware
  \/ \E v \in SignalVals : StepNext(v)
  \/ \E r \in {Undefined, ReqObj, FreshObj(i)} : StepReturn(r)
  \/ \E e \in ThrowVals : StepThrow(e)
  \/ CheckErr
  \/ ValidateQuery
  \/ ValidateParams
  \/ ValidateBody
  \/ InstallInterceptor
  \/ CallHandler
  \/ \E v \in SignalVals : HandlerNext(v)
  \/ \E v \in RawVals, catches \in BOOLEAN : HandlerSend(v, catches)
  \/ \E v \in ReturnVals : HandlerReturn(v)
  \/ \E e \in ThrowVals : HandlerThrow(e)
  \/ ImplicitSend
  \/ Restore
  \/ CallNext

Spec == Init /\ [][Next]_vars

\* ------------------------------------------------- two invocations
\* The routine is invoked a second time, with a request and a response of
\* its own, while the first invocation waits at an await.  Each invocation
\* has its own req, res, next and, being a new call of the async function,
\* its own err and originalSend; the schemas of the route's closure are
\* common to both.  One invocation runs at a time (a single thread); the
\* other is kept in `suspended`.

\* the own send of the second response
SendFn2 == [t |-> "function", name |-> "send2"]

\* the running invocation's own state
Locals ==
  [req |-> req, res |-> res, err |-> err, originalSend |-> originalSend,
   output |-> output, i |-> i, pc |-> pc, trace |-> trace]

\* an invocation at its start, called with request r and a response whose
\* own send is s: let err; let originalSend;
NewInvocation(c, r, s) ==
  [req |-> r, res |-> [send |-> s, headersSent |-> FALSE],
   err |-> Undefined, originalSend |-> Undefined, output |-> Undefined,
   i |-> 1, pc |-> IF c.use > 0 THEN "loop" ELSE "query",
   trace |-> <<[op |-> "invoke", req |-> r, send |-> s]>>]

\* the routes tried with two invocations: one step, a schema for query and
\* one for the result
PairConfigs ==
  [use : {1}, query : {TypeSchema}, params : {Undefined}, body : {Undefined},
   result : {TypeSchema}]

InitPair ==
  /\ config \in PairConfigs
  /\ checkResult = TRUE
  /\ query = ObjectToType(config.query)
  /\ params = ObjectToType(config.params)
  /\ body = ObjectToType(config.body)
  /\ result = ObjectToType(config.result)
  /\ \E r \in Requests(config) :
       LET first == NewInvocation(config, r, SendFn)
       IN /\ req = first.req
          /\ res = first.res
          /\ err = first.err
          /\ originalSend = first.originalSend
          /\ output = first.output
          /\ i = first.i
          /\ pc = first.pc
          /\ trace = first.trace
  /\ suspended \in {NewInvocation(config, r, SendFn2) : r \in Requests(config)}

\* the running invocation has not yet executed a statement
AtStart == Len(trace) = 1 /\ pc \in {"loop", "query"}

\* Switch with err declared in the route's closure instead of in the
\* routine: the invocations have one err in common
SwitchSharingErr ==
  /\ suspended # Nobody
  /\ pc \in {"step", "check", "handler", "implicit", "done"} \/ AtStart
  /\ suspended' = Locals
  /\ req' = suspended.req
  /\ res' = suspended.res
  /\ err' = err
  /\ originalSend' = suspended.originalSend
  /\ output' = suspended.output
  /\ i' = suspended.i
  /\ pc' = suspended.pc
  /\ trace' = suspended.trace
  /\ UNCHANGED cfgVars

\* The running invocation stops and the other one goes on from where it
\* stood.  An invocation can stop inside an awaited step or handler, between
\* the completion of the awaited call and its resumption after the await,
\* at its end, and before its first statement.
Switch ==
  /\ suspended # Nobody
  /\ pc \in {"step", "check", "handler", "implicit", "done"} \/ AtStart
  /\ suspended' = Locals
  /\ req' = suspended.req
  /\ res' = suspended.res
  /\ err' = suspended.err
  /\ originalSend' = suspended.originalSend
  /\ output' = suspended.output
  /\ i' = suspended.i
  /\ pc' = suspended.pc
  /\ trace' = suspended.trace
  /\ UNCHANGED cfgVars

\* the statements of the running invocation, or a switch to the other one;
\* the steps and the handlers either call their next argument, or fail, or
\* complete, the handlers with or without having sent
NextPair ==
  \/ CallMiddleware
  \/ \E v \in SignalVals : StepNext(v)
  \/ StepReturn(Undefined)
  \/ StepThrow(E2)
  \/ CheckErr
  \/ ValidateQuery
  \/ ValidateParams
  \/ ValidateBody
  \/ InstallInterceptor
  \/ CallHandler
  \/ \E v \in SignalVals : HandlerNext(v)
  \/ HandlerSend(Good, TRUE)
  \/ HandlerSend(Bad, FALSE)
  \/ HandlerReturn(Good)
  \/ HandlerThrow(E2)
  \/ ImplicitSend
  \/ Restore
  \/ CallNext
  \/ Switch

SpecPair == InitPair /\ [][NextPair]_vars

\* ------------------------------------------------- reading the trace
Fields == {"query", "params", "body"}
\* the closure's schema of a request field
SchemaOf(field) ==
  CASE field = "query" -> query
    [] field = "params" -> params
    [] field = "body" -> body

\* the events with a given op made by (or on behalf of) `who`: a step's
\* number, 0 for the handler, "explicit" or "implicit" for a send
By(op, who) == {n \in Events(op) : trace[n].by = who}
\* the calls of parse that threw
FailedParses == {n \in Events("parse") : ~ParseOk(trace[n].type, trace[n].value)}
\* the calls of a next argument that carried an error
ErrorSignals == {n \in Events("signal") : Truthy(trace[n].value)}
\* the errors the host's next has been called with
NextErrs == {trace[n].err : n \in Events("next")}
\* the routine has returned to its caller
Done == pc = "done"

\* ------------------------------------------------- C1
\* no step threw or signalled an error, no validation failed, the handler
\* neither threw nor signalled an error
NothingFailed ==
  /\ Events("throw") = {}
  /\ ErrorSignals = {}
  /\ FailedParses = {}

\* C1: the host's next is never called twice; it has been called exactly
\* once when the routine has finished, and not before; the routine cannot
\* stop short of finishing (some statement, or the completion of the running
\* step or handler, is always possible until then); and when nothing failed
\* next is called with no error.
C1_NextExactlyOnce ==
  /\ Count("next") <= 1
  /\ Done <=> Count("next") = 1
  /\ ~Done => ENABLED Next
  /\ (Done /\ NothingFailed) => NextErrs = {Undefined}

\* an invocation that ended by the result validation of the handler's
\* return value failing, with next called
C1_Witness ==
  /\ Done
  /\ \E n \in FailedParses : trace[n].field = "result" /\ trace[n - 1].by = "implicit"
  /\ Count("next") = 1

\* ------------------------------------------------- C2
\* C2: whenever the host's next is called, and when the routine has
\* finished, res.send is the function it was when the routine was invoked.
C2_SendRestored ==
  /\ \A n \in Events("next") : trace[n].send = trace[1].send
  /\ Done => res.send = trace[1].send

\* an invocation that finished after the handler ran with the wrapper
\* installed and never called res.send, so that the wrapper was still
\* installed when the handler ended
C2_Witness ==
  /\ Done
  /\ \E h \in Events("handler") : trace[h].send = WrapperFn
  /\ Events("res.send") = {}

\* ------------------------------------------------- C3
\* the values step k raised: what it threw, and the errors it passed to its
\* next argument
Raised(k) ==
  {trace[n].value : n \in By("throw", k)}
    \cup {trace[n].value : n \in By("signal", k) \cap ErrorSignals}
\* step k failed: it threw (or rejected), or called its next argument with
\* an error
StepFailed(k) == By("throw", k) # {} \/ By("signal", k) \cap ErrorSignals # {}

\* C3, as claimed: once step k has failed, no later step is ever invoked, no
\* validation runs, the handler is never invoked, nothing is sent, and next
\* receives nothing but an error of step k.
C3_Original ==
  \A k \in 1..config.use :
    StepFailed(k) =>
      /\ \A n \in Events("fn") : trace[n].k <= k
      /\ Events("parse") = {}
      /\ Events("handler") = {}
      /\ Events("send") = {}
      /\ NextErrs \subseteq Raised(k)

\* ------------------------------------------------- C4
\* the context the claim expects at position n of the trace: what the last
\* step that returned something before n returned, the request object when
\* none did
ReturnedBefore(n) ==
  {m \in Events("return") : m < n /\ trace[m].by > 0 /\ trace[m].value # Undefined}
ExpectedCtx(n) ==
  IF ReturnedBefore(n) = {} THEN ReqObj
  ELSE trace[CHOOSE m \in ReturnedBefore(n) : \A l \in ReturnedBefore(n) : l <= m].value
\* the steps that, before position n, assigned a field to the request object
AssignedBefore(n) ==
  {trace[m].by : m \in {l \in Events("return") :
                          l < n /\ trace[l].by > 0 /\ trace[l].value = ReqObj}}

\* C4, as claimed: every step after the first, and the handler, is invoked
\* with the context the step before it returned (the context that step was
\* given when it returned nothing).
C4_Original ==
  \A n \in Events("fn") \cup Events("handler") : trace[n].ctx = ExpectedCtx(n)

\* C4, amended: every step and the handler are invoked with the one request
\* object the routine was given, whatever the steps return; when the handler
\* is invoked every step of the list has run, and each step and the handler
\* find on that object the field of every earlier step that assigned one.
C4_SameRequestObject ==
  /\ \A n \in Events("fn") :
       /\ trace[n].ctx = ReqObj
       /\ trace[n].ext = AssignedBefore(n)
       /\ \A k \in 1..(trace[n].k - 1) : \E m \in By("return", k) : m < n
  /\ \A h \in Events("handler") :
       /\ trace[h].ctx = ReqObj
       /\ trace[h].req.ext = AssignedBefore(h)
       /\ \A k \in 1..config.use : \E m \in By("return", k) : m < h

\* the handler invoked after two steps that each assigned a field, the second
\* having found the first's
C4_Witness ==
  /\ \E h \in Events("handler") : trace[h].req.ext = {1, 2}
  /\ \E n \in Events("fn") : trace[n].k = 2 /\ trace[n].ext = {1}

\* ------------------------------------------------- C5
\* C5: when parse throws on a request field, it was called with the field's
\* schema and the field's value; the handler is never invoked and nothing is
\* sent; next is called with nothing but the error parse threw, and has been
\* called with it when the routine has finished.
C5_FieldErrorForwarded ==
  \A n \in FailedParses :
    trace[n].field \in Fields =>
      /\ trace[n].type = SchemaOf(trace[n].field)
      /\ trace[n].value = trace[1].req[trace[n].field]
      /\ Events("handler") = {}
      /\ Events("send") = {}
      /\ NextErrs \subseteq {ParseError(trace[n].type, trace[n].value)}
      /\ Done => NextErrs # {}

\* an invocation that finished after query and params passed validation and
\* the validation of body failed
C5_Witness ==
  /\ Done
  /\ \E n \in FailedParses : trace[n].field = "body"
  /\ \E n \in Events("parse") \ FailedParses : trace[n].field = "query"
  /\ \E n \in Events("parse") \ FailedParses : trace[n].field = "params"

\* ------------------------------------------------- C6
\* C6: the handler is invoked with, and while it runs finds, every request
\* field that has a schema replaced by what parse returned for the schema and
\* the value the field had on the incoming request.
C6_HandlerSeesValidated ==
  \A f \in Fields :
    SchemaOf(f) # Undefined =>
      /\ \A h \in Events("handler") :
           trace[h].req[f] = ParseValue(SchemaOf(f), trace[1].req[f])
      /\ pc = "handler" => req[f] = ParseValue(SchemaOf(f), trace[1].req[f])

\* the handler invoked on a route with schemas for query, params and body
C6_Witness ==
  /\ Events("handler") # {}
  /\ \A f \in Fields : SchemaOf(f) # Undefined

\* ------------------------------------------------- C7
\* the calls of res.send the handler made itself
ExplicitCalls == By("res.send", "explicit")
\* the handler ran to its end returning a value that parse accepts for the
\* result schema, with the wrapper installed, and neither threw nor called its
\* next argument with an error
ReturnedAccepted ==
  /\ Intercepts
  /\ By("throw", 0) = {}
  /\ By("signal", 0) \cap ErrorSignals = {}
  /\ \E n \in By("return", 0) : ParseOk(result, trace[n].value)

\* C7, as claimed: when the handler returned an accepted value, threw
\* nothing, signalled no error and nothing had been transmitted, the finished
\* invocation has transmitted exactly once, the value parse returned for the
\* handler's return value, and called next with no error.
C7_Original ==
  (Done /\ ReturnedAccepted /\ By("send", "explicit") = {}) =>
    /\ Count("send") = 1
    /\ \A s \in Events("send") : trace[s].value = ParseValue(result, output)
    /\ NextErrs = {Undefined}

\* C7: when the handler returned an accepted value, threw nothing, signalled
\* no error and never called res.send, the finished invocation has
\* transmitted exactly once, through the wrapper and on to the response's own
\* send, the value parse returned for the handler's return value, and called
\* next with no error.
C7_ReturnedValueSent ==
  (Done /\ ReturnedAccepted /\ ExplicitCalls = {}) =>
    /\ Count("send") = 1
    /\ \A s \in Events("send") :
         /\ trace[s].value = ParseValue(result, output)
         /\ trace[s].by = "implicit"
         /\ trace[s].via = "wrapper"
    /\ NextErrs = {Undefined}

\* a finished invocation whose handler returned an accepted value without
\* calling res.send, the routine having sent it
C7_Witness ==
  /\ Done
  /\ ReturnedAccepted
  /\ ExplicitCalls = {}
  /\ Count("send") = 1

\* ------------------------------------------------- C8
\* the calls of res.send with a payload parse rejects for the result schema
RejectedCalls == {c \in Events("res.send") : ~ParseOk(result, trace[c].value)}
\* the first call of res.send of the invocation
FirstCall == CHOOSE c \in Events("res.send") : \A d \in Events("res.send") : c <= d
\* the error of call c left the handler, or call c was the routine's own
Escaped(c) ==
  \/ trace[c].by = "implicit"
  \/ /\ Len(trace) >= c + 2
     /\ trace[c + 2].op = "throw"
     /\ trace[c + 2].value = ParseError(result, trace[c].value)

\* C8, as claimed: with the wrapper installed for the handler, no call of
\* res.send with a rejected payload, the handler's or the routine's for the
\* returned value, transmits anything, and the finished invocation has called
\* next with the validation error of that payload.
C8_Original ==
  Intercepts =>
    \A c \in RejectedCalls :
      /\ \A s \in Events("send") : trace[s].value # trace[c].value
      /\ Done => NextErrs = {ParseError(result, trace[c].value)}

\* C8: with the wrapper installed for the handler, the first call of
\* res.send of the invocation goes to the wrapper, which calls parse with the
\* result schema and the payload; when parse rejects the payload that call
\* transmits nothing, and the finished invocation has called next with the
\* validation error if the call was the routine's own or the handler let the
\* error escape.
C8_FirstRejectedNotSent ==
  (Intercepts /\ Events("res.send") # {}) =>
    LET c == FirstCall
    IN /\ trace[c].fn = WrapperFn
       /\ trace[c + 1].op = "parse"
       /\ trace[c + 1].type = result
       /\ trace[c + 1].value = trace[c].value
       /\ c \in RejectedCalls =>
            /\ Len(trace) >= c + 2 => trace[c + 2].op # "send"
            /\ \A s \in Events("send") : s > c + 2
            /\ (Done /\ Escaped(c)) =>
                  NextErrs = {ParseError(result, trace[c].value)}

\* a finished invocation whose handler passed a rejected payload to res.send
\* and let the error escape, and one where nothing was transmitted
C8_Witness ==
  /\ Done
  /\ Intercepts
  /\ ExplicitCalls \cap RejectedCalls # {}
  /\ By("throw", 0) # {}
  /\ Events("send") = {}
  /\ NextErrs = {ParseError(result, Bad)}

\* ------------------------------------------------- C9
\* the transmissions the routine made: those of its implicit send, and those
\* its wrapper passed on
RoutineSends == {s \in Events("send") : trace[s].by = "implicit" \/ trace[s].via = "wrapper"}

\* C9: once a payload the handler passed to res.send has been transmitted,
\* the handler's return value is never transmitted, and the routine has
\* called the response's own send at most once.
C9_ReturnNotSentAfterSend ==
  By("send", "explicit") # {} =>
    /\ By("send", "implicit") = {}
    /\ By("res.send", "implicit") = {}
    /\ Cardinality(RoutineSends) <= 1

\* a finished invocation whose handler transmitted a payload with res.send
\* and then returned a value
C9_Witness ==
  /\ Done
  /\ By("send", "explicit") # {}
  /\ \E n \in By("return", 0) : trace[n].value = Good

\* ------------------------------------------------- C10
\* the errors the handler passed to its next argument
HandlerSignalled == {trace[n].value : n \in By("signal", 0) \cap ErrorSignals}

\* C10, as claimed: when the handler called its next argument with an error
\* and returned a value without calling res.send, nothing is ever
\* transmitted, and the finished invocation has called next with an error
\* the handler signalled.
C10_Original ==
  (/\ HandlerSignalled # {}
   /\ \E n \in By("return", 0) : trace[n].value # Undefined
   /\ ExplicitCalls = {}) =>
    /\ Events("send") = {}
    /\ Done => (NextErrs # {} /\ NextErrs \subseteq HandlerSignalled)

\* ------------------------------------------------- C11
\* C11: once the handler has thrown (or its promise has rejected), the
\* routine never makes its implicit send, calls next with nothing but the
\* thrown value, and has called it when the routine has finished.
C11_HandlerThrowForwarded ==
  \A n \in By("throw", 0) :
    /\ By("res.send", "implicit") = {}
    /\ NextErrs \subseteq {trace[n].value}
    /\ Done => NextErrs = {trace[n].value}

\* a finished invocation whose handler called its next argument with one
\* error and then threw another
C11_Witness ==
  /\ Done
  /\ HandlerSignalled = {E1}
  /\ \E n \in By("throw", 0) : trace[n].value = E2

\* ------------------------------------------------- C12
\* a result schema is configured and result checking is enabled
Checking == config.result # Undefined /\ checkResult

\* C12: the handler is invoked with res.send replaced exactly when a result
\* schema is configured and checkResult is enabled, and res.send is the
\* wrapper only from the installation to the restore statement; otherwise res.send is never replaced, parse is
\* never called on an outbound payload, and every call of res.send
\* transmits its payload as it is, valid or not.
C12_InterceptorIffChecking ==
  /\ \A h \in Events("handler") : (trace[h].send = WrapperFn) <=> Checking
  /\ res.send = WrapperFn => (Checking /\ pc \in {"call", "handler", "implicit", "restore"})
  /\ ~Checking =>
       /\ res.send = SendFn
       /\ originalSend = Undefined
       /\ \A n \in Events("parse") : trace[n].field # "result"
       /\ \A c \in Events("res.send") :
            /\ trace[c].fn = SendFn
            /\ trace[c + 1] = [op |-> "send", value |-> trace[c].value,
                               by |-> trace[c].by, via |-> "direct"]

\* a finished invocation with a result schema and checkResult false whose
\* handler transmitted a payload the schema rejects
C12_Witness ==
  /\ Done
  /\ config.result # Undefined
  /\ ~checkResult
  /\ \E s \in Events("send") : trace[s].value = Bad

\* ------------------------------------------------- C13
\* C13: parse is never called for a field among query, params, body that
\* has no configured schema, and the handler is invoked with, and while it
\* runs finds, that field as it was on the incoming request.
C13_UnconfiguredUntouched ==
  \A f \in Fields :
    config[f] = Undefined =>
      /\ \A n \in Events("parse") : trace[n].field # f
      /\ req[f] = trace[1].req[f]
      /\ \A h \in Events("handler") : trace[h].req[f] = trace[1].req[f]

\* the handler invoked on a route with no schema for query or for params
C13_Witness ==
  /\ Events("handler") # {}
  /\ config.query = Undefined
  /\ config.params = Undefined

\* ------------------------------------------------- C14
\* the failures of the invocation, as positions of the trace: a throw of a
\* step or of the handler (a validation error of res.send that the handler
\* let escape included), a call of a next argument with an error, a failed
\* validation of a request field, a failed validation of the returned value
Failures ==
  Events("throw") \cup ErrorSignals
    \cup {n \in FailedParses : trace[n].field \in Fields \/ trace[n - 1].by = "implicit"}
\* the error of the failure at position n
FailureValue(n) ==
  IF trace[n].op = "parse" THEN ParseError(trace[n].type, trace[n].value)
                           ELSE trace[n].value
FirstFailure == CHOOSE n \in Failures : \A m \in Failures : n <= m

\* C14, as claimed: once a failure has occurred, next is called with nothing
\* but the error of the first failure of the invocation, whatever is
\* signalled or thrown later, and has been called with it when the routine
\* has finished.
C14_Original ==
  Failures # {} =>
    /\ NextErrs \subseteq {FailureValue(FirstFailure)}
    /\ Done => NextErrs = {FailureValue(FirstFailure)}

\* ------------------------------------------------- C15
\* the last call step k made of its next argument
LastSignal(k) == CHOOSE n \in By("signal", k) : \A m \in By("signal", k) : m <= n
\* step k called its next argument with e and then completed
SignalledAndCompleted(k, e) ==
  /\ By("return", k) # {}
  /\ By("signal", k) # {}
  /\ trace[LastSignal(k)].value = e
\* step k threw e (or rejected with e)
Threw(k, e) == \E n \in By("throw", k) : trace[n].value = e
\* what can be observed of an invocation that step k ended with error e:
\* no later step has been invoked, nothing validated, the handler not
\* invoked, res.send neither called nor replaced, next called at most once
\* and only with e, and called when the routine has finished
EndedBy(k, e) ==
  /\ \A n \in Events("fn") : trace[n].k <= k
  /\ Events("parse") = {}
  /\ Events("handler") = {}
  /\ Events("res.send") = {}
  /\ Events("send") = {}
  /\ res = [send |-> trace[1].send, headersSent |-> FALSE]
  /\ Count("next") <= 1
  /\ NextErrs \subseteq {e}
  /\ Done => NextErrs = {e}

C15_ThrowWitness ==
  /\ Done
  /\ Threw(2, E1)
  /\ NextErrs = {E1}

\* ------------------------------------------------- C16
\* step k was invoked, and completed, before position n of the trace
StartedBefore(k, n) == \E m \in Events("fn") : m < n /\ trace[m].k = k
CompletedBefore(k, n) == \E m \in By("return", k) : m < n
\* before position n every step had completed and every configured field
\* had passed validation
ValidatedBefore(n) ==
  /\ \A k \in 1..config.use : CompletedBefore(k, n)
  /\ \A f \in Fields :
       config[f] # Undefined =>
         \E m \in Events("parse") \ FailedParses : m < n /\ trace[m].field = f
  /\ \A m \in FailedParses : m > n

\* C16: a step is invoked at most once, and step k + 1 only after step k was
\* invoked and has completed; a request field is validated only after every
\* step has completed; res.send is replaced only after every step has
\* completed and every configured field has passed validation; and the
\* handler is invoked at most once, only after all that, with the wrapper
\* already installed when there is one to install.
C16_PipelineOrder ==
  /\ \A n, m \in Events("fn") : trace[n].k = trace[m].k => n = m
  /\ \A n \in Events("fn") :
       \A k \in 1..(trace[n].k - 1) : StartedBefore(k, n) /\ CompletedBefore(k, n)
  /\ \A n \in Events("parse") :
       \A k \in 1..config.use : CompletedBefore(k, n)
  /\ (res.send = WrapperFn \/ originalSend # Undefined) =>
       ValidatedBefore(Len(trace) + 1)
  /\ Count("handler") <= 1
  /\ \A h \in Events("handler") :
       /\ ValidatedBefore(h)
       /\ Checking => trace[h].send = WrapperFn
       /\ \A n \in Events("fn") \cup {m \in Events("parse") : trace[m].field \in Fields} :
            n < h

\* the handler invoked after two steps, the three field validations and the
\* installation of the wrapper
C16_Witness ==
  /\ config.use = 2
  /\ \A f \in Fields : config[f] # Undefined
  /\ \E h \in Events("handler") : trace[h].send = WrapperFn

\* ------------------------------------------------- C17
\* the place of a request field in the validation order
FieldRank(f) == CASE f = "query" -> 1 [] f = "params" -> 2 [] f = "body" -> 3
\* the validations of request fields
FieldParses == {n \in Events("parse") : trace[n].field \in Fields}

\* C17: request fields are validated in the order query, params, body, each
\* at most once and none before every configured field earlier in the order
\* has passed; after a failed validation of a field no other field is ever
\* validated and the handler is never invoked.
C17_FieldOrderHalts ==
  /\ \A n, m \in FieldParses :
       n < m => FieldRank(trace[n].field) < FieldRank(trace[m].field)
  /\ \A n \in FieldParses : \A g \in Fields :
       (config[g] # Undefined /\ FieldRank(g) < FieldRank(trace[n].field)) =>
         \E m \in FieldParses \ FailedParses : m < n /\ trace[m].field = g
  /\ \A n \in FieldParses \cap FailedParses :
       /\ \A m \in FieldParses : m <= n
       /\ Events("handler") = {}

\* a finished invocation on a route with all three field schemas in which
\* query passed and params failed, so that body was never validated
C17_Witness ==
  /\ Done
  /\ \A f \in Fields : config[f] # Undefined
  /\ \E n \in FieldParses \ FailedParses : trace[n].field = "query"
  /\ \E n \in FieldParses \cap FailedParses : trace[n].field = "params"

\* ------------------------------------------------- C18
\* the validations of outbound payloads
ResultParses == {n \in Events("parse") : trace[n].field = "result"}

ErrWrites(tr) ==
  {n \in 1..Len(tr) :
     \/ tr[n].op \in {"signal", "throw"}
     \/ /\ tr[n].op = "parse"
        /\ ~ParseOk(tr[n].type, tr[n].value)
        /\ (tr[n].field \in Fields \/ tr[n - 1].by = "implicit")}
\* the value err has after the calls of tr, in an invocation on its own
ErrAfter(tr) ==
  IF ErrWrites(tr) = {} THEN Undefined
  ELSE LET n == CHOOSE m \in ErrWrites(tr) : \A l \in ErrWrites(tr) : l <= m
       IN IF tr[n].op = "parse" THEN ParseError(tr[n].type, tr[n].value)
                                ELSE tr[n].value
\* the errors raised in the calls of tr
RaisedIn(tr) ==
  {tr[n].value : n \in {m \in 1..Len(tr) : tr[m].op \in {"signal", "throw"}}}
    \cup {ParseError(tr[n].type, tr[n].value) :
             n \in {m \in 1..Len(tr) : tr[m].op = "parse"}}
\* the invocation with own state L stands as it would had it run alone
\* through the calls of its trace: its err, its response and its request
\* follow from its own calls, its next received what its own calls left in
\* err, an error raised in this invocation or none, and saw the response's
\* own send
AsAlone(L) ==
  LET tr == L.trace
  IN /\ L.err = ErrAfter(tr)
     /\ L.res.headersSent <=> \E n \in 1..Len(tr) : tr[n].op = "send"
     /\ L.res.send \in {tr[1].send, WrapperFn}
     /\ L.originalSend \in {Undefined, tr[1].send}
     /\ L.pc = "done" => L.res.send = tr[1].send
     /\ \A f \in Fields :
          L.req[f] = IF \E n \in 1..Len(tr) :
                          tr[n].op = "parse" /\ tr[n].field = f
                                             /\ ParseOk(tr[n].type, tr[n].value)
                       THEN ParseValue(SchemaOf(f), tr[1].req[f])
                       ELSE tr[1].req[f]
     /\ \A n \in 1..Len(tr) :
          tr[n].op = "next" =>
            /\ tr[n].err = ErrAfter(SubSeq(tr, 1, n - 1))
            /\ tr[n].err \in RaisedIn(tr) \cup {Undefined}
            /\ tr[n].send = tr[1].send
            /\ n = Len(tr)
            /\ L.pc = "done"

\* C19: of two invocations of one route's routine, on their own requests
\* and responses and interleaved at their awaits, each stands at every
\* moment as it would had it run alone: its next receives only what its own
\* calls left in err, its response's send is restored to that response's
\* own send, and the two own sends stay apart.
C19_InvocationsIndependent ==
  /\ suspended # Nobody
  /\ AsAlone(Locals)
  /\ AsAlone(suspended)
  /\ {trace[1].send, suspended.trace[1].send} = {SendFn, SendFn2}

\* one invocation has finished with its payload sent and no error while
\* the other waits in its handler, having called its next argument with an
\* error and with the wrapper installed on its response
C19_Witness ==
  /\ suspended # Nobody
  /\ Done
  /\ NextErrs = {Undefined}
  /\ res.headersSent
  /\ \E h \in Events("handler") : h > 2
  /\ suspended.pc = "handler"
  /\ suspended.err = E1
  /\ suspended.res.send = WrapperFn

\* ------------------------------------------------- C20
Slots == {"query", "params", "body", "result"}
\* the closure's schema of a request field or of the result
ClosureSchema(slot) == IF slot = "result" THEN result ELSE SchemaOf(slot)
\* what the claim expects the closure to hold for a configured value: the
\* combinator's schema of a plain record, anything else as it is
Expected(given) ==
  IF given = PlainRecord
    THEN [t |-> "schema", constructor |-> "ZodObject", of |-> PlainRecord]
    ELSE given
\* the closure holds the expected schemas, and parse has only been called
\* with them
Normalized ==
  /\ \A slot \in Slots : ClosureSchema(slot) = Expected(config[slot])
  /\ \A n \in Events("parse") : trace[n].type = Expected(config[trace[n].field])

\* C20: at every moment of an invocation the closure holds, for query,
\* params, body and result, the combinator's schema when a plain record was
\* configured and the configured value itself otherwise, and every call of
\* parse is made with that schema; no statement of the invocation assigns
\* the configuration or the closure's schemas.
C20_SchemaNormalization ==
  /\ []Normalized
  /\ [][UNCHANGED <<config, query, params, body, result>>]_vars

\* the handler's payload validated against the schema made of a plain
\* record, after query was validated against a schema instance that was
\* passed through, on a route with no schema for params
C20_Witness ==
  /\ config.query = TypeSchema
  /\ config.result = PlainRecord
  /\ \E n \in Events("parse") : trace[n].field = "query" /\ trace[n].type = TypeSchema
  /\ \E n \in Events("parse") :
       /\ trace[n].field = "result"
       /\ trace[n].type = [t |-> "schema", constructor |-> "ZodObject", of |-> PlainRecord]

\* ------------------------------------------------- C21
\* C21, as claimed: whenever the host's next is called with no error, a
\* payload has been transmitted on the response before that call.
C21_Original ==
  \A n \in Events("next") :
    trace[n].err = Undefined => \E s \in Events("send") : s < n

\* ------------------------------------------------- C22
\* C22: from the failed validation of a request field on, up to and after
\* the call of next, every configured field earlier in the order query,
\* params, body holds the value parse returned for it, and the failing field
\* and the fields after it hold the values of the incoming request.
C22_NoRollback ==
  \A n \in FieldParses \cap FailedParses :
    \A f \in Fields :
      req[f] = IF config[f] # Undefined /\ FieldRank(f) < FieldRank(trace[n].field)
                 THEN ParseValue(SchemaOf(f), trace[1].req[f])
                 ELSE trace[1].req[f]

\* a finished invocation, next called with the validation error of body,
\* whose request holds the validated query and params and the incoming body
C22_Witness ==
  /\ Done
  /\ \E n \in FieldParses \cap FailedParses :
       /\ trace[n].field = "body"
       /\ NextErrs = {ParseError(body, trace[n].value)}
  /\ req.query = ParseValue(query, Good)
  /\ req.params = ParseValue(params, Good)
  /\ req.body = Bad

====
